---- MODULE Spec2Model ----
(***************************************************************************)
(* Model of the leilao-tracker deduplication pipeline (deduplicate.ts,     *)
(* utils.ts, types.ts).                                                    *)
(*                                                                         *)
(* Strings are sequences of character codes:                               *)
(*     0            a blank                                                *)
(*     1 .. 99      a lower-case letter, digit or punctuation mark         *)
(*     100 + c      the upper-case form of c                               *)
(*     200 + c      c carrying a diacritic (precomposed)                   *)
(*     300 + c      the upper-case form of c carrying a diacritic          *)
(* Where the text matters the letters a .. z are 1 .. 26, the digits are   *)
(* 40 .. 49 and the marks ( ) - , . $ / % are 30 .. 37.                    *)
(* A nullable number (avaliacao, desconto) is <<>> for null and <<n>> for  *)
(* the number n.  Optional and nullable strings use the words "undefined"  *)
(* and "null" for the absent value.                                        *)
(***************************************************************************)
EXTENDS Integers, Sequences, FiniteSets, TLC

VARIABLES
    sources,        \* the argument of deduplicateProperties
    allProperties,  \* sources.flat()
    pos,            \* index of the next record of allProperties to process
    deduplicated,   \* the emitted list
    seen,           \* the seen set, in insertion order
    step,           \* the locals of the last loop iteration
    result,         \* the returned list
    firstResult,    \* the list returned by the first call
    run,            \* 1: first call, 2: the call on the first call's output
    pc,             \* "idle", "loop", "done"
    current,        \* markNewProperties: the first argument
    previous,       \* markNewProperties: the second argument
    marked,         \* markNewProperties: the returned list
    markPc,         \* "idle", "done"
    candidates,     \* the parsed listings offered to the filter
    kept,           \* the listings that survive the filter
    filterPc,       \* "idle", "meetsFilters", "filterProperties"
    bairroArg,      \* the neighborhood text given to a priority matcher
    priorityOut,    \* the matcher's answer
    priorityPc,     \* "idle", "isPriorityNeighborhood", "isPriority"
    listing,        \* the texts of one listing of a page or of a CSV line
    emitted,        \* <<>> or the one record the scraper pushed for it
    scrapePc,       \* "idle", "done"
    simFirst,       \* the address of the record being processed
    simSecond,      \* the address of an earlier record
    simValue,     \* compareTwoStrings of the two normalized addresses
    simDuplicate,   \* whether the loop takes the pair for duplicates
    simPc,          \* "idle", "done"
    mapInput,       \* the argument of scrape.ts deduplicateProperties
    mapOutput,      \* its result
    mapPc,          \* "idle", "done"
    snapshots,      \* for every date, the file data/<date>.json
    clock,          \* the date today() returns
    runCount,       \* the number of runs of main so far
    lastRun,        \* the arguments and the scrapers' results of the last run
    scraper,        \* "caixa" (scrape-caixa.ts) or "zuk" (scrape.ts)
    cityPlan,       \* for every city, what its fetch and its listings do
    cityPos,        \* the place of the next city in the list of cities
    attempted,      \* the cities fetched so far
    collected,      \* the records pushed so far
    scraperPc       \* "idle", "loop", "returned", "threw"

dedupVars == <<sources, allProperties, pos, deduplicated, seen, step, result,
               firstResult, run, pc>>

markVars == <<current, previous, marked, markPc>>

filterVars == <<candidates, kept, filterPc>>

priorityVars == <<bairroArg, priorityOut, priorityPc>>

scrapeVars == <<listing, emitted, scrapePc>>

simVars == <<simFirst, simSecond, simValue, simDuplicate, simPc>>

mapVars == <<mapInput, mapOutput, mapPc>>

mainVars == <<snapshots, clock, runCount, lastRun>>

loopVars == <<scraper, cityPlan, cityPos, attempted, collected, scraperPc>>

vars == <<dedupVars, markVars, filterVars, priorityVars, scrapeVars, simVars, mapVars, mainVars, loopVars>>

\* the variables deduplicateProperties does not touch
otherVars == <<markVars, filterVars, priorityVars, scrapeVars, simVars, mapVars, mainVars, loopVars>>

MaxDays == 2

MaxRuns == 2

MaxSourceRecords == 2

MaxCities == 2

MaxListings == 2

\* markNewProperties has not been called
MarkIdle ==
    /\ current = <<>>
    /\ previous = <<>>
    /\ marked = <<>>
    /\ markPc = "idle"

\* no listing has been filtered
FilterIdle ==
    /\ candidates = <<>>
    /\ kept = <<>>
    /\ filterPc = "idle"

\* no priority matcher has been called
PriorityIdle ==
    /\ bairroArg = <<>>
    /\ priorityOut = FALSE
    /\ priorityPc = "idle"

\* no listing has been parsed
ScrapeIdle ==
    /\ listing = <<>>
    /\ emitted = <<>>
    /\ scrapePc = "idle"

\* no pair of addresses has been compared on its own
SimIdle ==
    /\ simFirst = <<>>
    /\ simSecond = <<>>
    /\ simValue = [num |-> 0, den |-> 1]
    /\ simDuplicate = FALSE
    /\ simPc = "idle"

\* scrape.ts deduplicateProperties has not been called
MapIdle ==
    /\ mapInput = <<>>
    /\ mapOutput = <<>>
    /\ mapPc = "idle"

\* main has not run: no snapshot file, the first day
MainIdle ==
    /\ snapshots = [d \in 1..MaxDays |-> [exists |-> FALSE, content |-> <<>>]]
    /\ clock = 1
    /\ runCount = 0
    /\ lastRun = [sourceArg |-> "", zuk |-> <<>>, caixa |-> <<>>]

\* no scraper loop is running
LoopIdle ==
    /\ scraper = ""
    /\ cityPlan = <<>>
    /\ cityPos = 1
    /\ attempted = <<>>
    /\ collected = <<>>
    /\ scraperPc = "idle"

OtherIdle == MarkIdle /\ FilterIdle /\ PriorityIdle /\ ScrapeIdle /\ SimIdle /\ MapIdle /\ MainIdle /\ LoopIdle

----------------------------------------------------------------------------
(* Bounds of the model. *)

MaxRecords == 4

MaxBatches == 2

MaxTieRecords == 2

MaxBoundaryRecords == 3

MaxSortRecords == 4

MaxMarkRecords == 2

MaxFilterRecords == 2

MaxPriceTexts == 5

MaxLookupRecords == 5

MaxTextLen == 3

----------------------------------------------------------------------------
(* utils.ts: normalizeText *)

StripDiacritic(c) == IF c >= 200 THEN c - 200 ELSE c

ToLowerCase(c) ==
    IF (c >= 100 /\ c < 200) \/ c >= 300 THEN c - 100 ELSE c

IsBlank(c) == c = 0

RECURSIVE TrimStart(_)
TrimStart(s) ==
    IF s # <<>> /\ IsBlank(Head(s)) THEN TrimStart(Tail(s)) ELSE s

RECURSIVE TrimEnd(_)
TrimEnd(s) ==
    IF s # <<>> /\ IsBlank(s[Len(s)])
    THEN TrimEnd(SubSeq(s, 1, Len(s) - 1))
    ELSE s

Trim(s) == TrimEnd(TrimStart(s))

normalizeText(text) ==
    Trim([i \in 1..Len(text) |-> ToLowerCase(StripDiacritic(text[i]))])

----------------------------------------------------------------------------
(* string-similarity: compareTwoStrings, the Dice coefficient over         *)
(* character bigrams, as a fraction num/den.                               *)

RemoveWhitespace(s) == SelectSeq(s, LAMBDA c : ~IsBlank(c))

Bigrams(s) == [i \in 1..(Len(s) - 1) |-> <<s[i], s[i + 1]>>]

BigramCounts(s) ==
    LET bg == Bigrams(s)
    IN  [b \in {bg[i] : i \in DOMAIN bg} |->
            Cardinality({i \in DOMAIN bg : bg[i] = b})]

RECURSIVE IntersectionSize(_, _, _)
IntersectionSize(firstBigrams, secondBigrams, i) ==
    IF i > Len(secondBigrams) THEN 0
    ELSE LET bigram == secondBigrams[i]
             count  == IF bigram \in DOMAIN firstBigrams
                       THEN firstBigrams[bigram] ELSE 0
         IN  IF count > 0
             THEN 1 + IntersectionSize(
                        [firstBigrams EXCEPT ![bigram] = count - 1],
                        secondBigrams, i + 1)
             ELSE IntersectionSize(firstBigrams, secondBigrams, i + 1)

compareTwoStrings(a, b) ==
    LET first  == RemoveWhitespace(a)
        second == RemoveWhitespace(b)
    IN  IF first = second THEN [num |-> 1, den |-> 1]
        ELSE IF Len(first) < 2 \/ Len(second) < 2 THEN [num |-> 0, den |-> 1]
        ELSE [num |-> 2 * IntersectionSize(BigramCounts(first),
                                           Bigrams(second), 1),
              den |-> Len(first) + Len(second) - 2]

----------------------------------------------------------------------------
(* deduplicate.ts: ADDRESS_SIMILARITY_THRESHOLD = 0.85 = 85/100.  The      *)
(* quotient 2*I/n is rounded to the nearest double and so is the literal   *)
(* 0.85; for the string lengths at hand the comparison of the doubles is   *)
(* the comparison of the fractions.                                        *)

ThresholdNum == 85

ThresholdDen == 100

\* similarity > ADDRESS_SIMILARITY_THRESHOLD
AtLeastThresholdStrict(similarity) ==
    similarity.num * ThresholdDen > ThresholdNum * similarity.den

\* similarity >= ADDRESS_SIMILARITY_THRESHOLD
AtLeastThreshold(similarity) ==
    similarity.num * ThresholdDen >= ThresholdNum * similarity.den

----------------------------------------------------------------------------
(* JavaScript truthiness of the field types of Property (types.ts).  The   *)
(* default modality 'Leil\u00e3o' is written "Leilao".                     *)

TruthyNumber(n) == n # <<>> /\ n[1] # 0

TruthyString(s) == s \notin {"undefined", "null", ""}

----------------------------------------------------------------------------
(* deduplicate.ts: scoreProperty and shouldReplace *)

scoreProperty(property) ==
      (IF TruthyNumber(property.avaliacao) THEN 3 ELSE 0)
    + (IF TruthyNumber(property.desconto) THEN 3 ELSE 0)
    + (IF TruthyString(property.area) THEN 2 ELSE 0)
    + (IF TruthyString(property.encerramento) THEN 1 ELSE 0)
    + (IF property.ocupacao # "desconhecido" THEN 2 ELSE 0)
    + (IF Len(property.endereco) > 20 THEN 1 ELSE 0)
    + (IF TruthyString(property.modalidade) /\ property.modalidade # "Leilao"
       THEN 1 ELSE 0)

shouldReplace(existing, newProp) ==
    LET existingScore == scoreProperty(existing)
        newScore      == scoreProperty(newProp)
    IN  IF newScore > existingScore THEN TRUE
        ELSE IF newScore = existingScore
                /\ (\/ TruthyNumber(newProp.desconto)
                       /\ ~TruthyNumber(existing.desconto)
                    \/ TruthyNumber(newProp.avaliacao)
                       /\ ~TruthyNumber(existing.avaliacao))
             THEN TRUE
        ELSE FALSE

----------------------------------------------------------------------------
(* deduplicate.ts: the body of the loop of deduplicateProperties *)

FirstIndex(S) == IF S = {} THEN 0 ELSE CHOOSE k \in S : \A j \in S : k <= j

\* the batches joined last batch first
RECURSIVE FlatLastFirst(_)
FlatLastFirst(batches) ==
    IF batches = <<>> THEN <<>>
    ELSE FlatLastFirst(Tail(batches)) \o Head(batches)

\* sources.flat()
RECURSIVE Flat(_)
Flat(batches) ==
    IF batches = <<>> THEN <<>> ELSE Head(batches) \o Flat(Tail(batches))

\* for (const existingAddress of seen) ... if (similarity >= THRESHOLD): the
\* index in seen of the first similar address, 0 when the loop ends without one
MatchKey(seenKeys, normalizedAddress) ==
    FirstIndex({k \in 1..Len(seenKeys) :
        AtLeastThreshold(compareTwoStrings(normalizedAddress, seenKeys[k]))})

\* deduplicated.findIndex(...): 0 stands for -1
findIndex(dedup, existingAddress) ==
    FirstIndex({i \in 1..Len(dedup) :
        AtLeastThreshold(compareTwoStrings(normalizeText(dedup[i].endereco),
                                           existingAddress))})

\* seen.add(normalizedAddress)
SetAdd(seenKeys, normalizedAddress) ==
    IF \E k \in 1..Len(seenKeys) : seenKeys[k] = normalizedAddress
    THEN seenKeys
    ELSE Append(seenKeys, normalizedAddress)

\* the replaced record removed and the new one pushed at the end
ReplaceAtByAppend(dedup, existingIndex, property) ==
    Append(SubSeq(dedup, 1, existingIndex - 1)
           \o SubSeq(dedup, existingIndex + 1, Len(dedup)), property)

\* a replacement that keeps the id of the record it replaces
ReplaceAtMerged(dedup, existingIndex, property) ==
    [dedup EXCEPT ![existingIndex] =
        [property EXCEPT !.id = dedup[existingIndex].id]]

\* deduplicated[existingIndex] = property
ReplaceAt(dedup, existingIndex, property) ==
    [dedup EXCEPT ![existingIndex] = property]

\* a push that does not record the address in the seen set
NewBranchNoKey(dedup, seenKeys, property, normalizedAddress) ==
    [deduplicated  |-> Append(dedup, property),
     seen          |-> seenKeys,
     isDuplicate   |-> FALSE,
     matchedKey    |-> 0,
     existingIndex |-> 0,
     existing      |-> <<>>,
     scores        |-> <<>>,
     replaced      |-> FALSE]

\* if (!isDuplicate) { deduplicated.push(property); seen.add(normalizedAddress) }
NewBranch(dedup, seenKeys, property, normalizedAddress) ==
    [deduplicated  |-> Append(dedup, property),
     seen          |-> SetAdd(seenKeys, normalizedAddress),
     isDuplicate   |-> FALSE,
     matchedKey    |-> 0,
     existingIndex |-> 0,
     existing      |-> <<>>,
     scores        |-> <<>>,
     replaced      |-> FALSE]

\* a replacement that also rewrites the matched key of the seen set
DupBranchRekey(dedup, seenKeys, property, key) ==
    LET existingIndex == findIndex(dedup, seenKeys[key])
        replace == existingIndex # 0
                   /\ shouldReplace(dedup[existingIndex], property)
    IN  [deduplicated  |-> IF replace
                           THEN ReplaceAt(dedup, existingIndex, property)
                           ELSE dedup,
         seen          |-> IF replace
                           THEN [seenKeys EXCEPT
                                   ![key] = normalizeText(property.endereco)]
                           ELSE seenKeys,
         isDuplicate   |-> TRUE,
         matchedKey    |-> key,
         existingIndex |-> existingIndex,
         existing      |-> IF existingIndex # 0
                           THEN <<dedup[existingIndex]>> ELSE <<>>,
         scores        |-> IF existingIndex # 0
                           THEN <<scoreProperty(dedup[existingIndex]),
                                  scoreProperty(property)>>
                           ELSE <<>>,
         replaced      |-> replace]

\* the body of "if (similarity >= ADDRESS_SIMILARITY_THRESHOLD)" up to break
DupBranch(dedup, seenKeys, property, key) ==
    LET existingIndex == findIndex(dedup, seenKeys[key])
        replace == existingIndex # 0
                   /\ shouldReplace(dedup[existingIndex], property)
    IN  [deduplicated  |-> IF replace
                           THEN ReplaceAt(dedup, existingIndex, property)
                           ELSE dedup,
         seen          |-> seenKeys,
         isDuplicate   |-> TRUE,
         matchedKey    |-> key,
         existingIndex |-> existingIndex,
         existing      |-> IF existingIndex # 0
                           THEN <<dedup[existingIndex]>> ELSE <<>>,
         scores        |-> IF existingIndex # 0
                           THEN <<scoreProperty(dedup[existingIndex]),
                                  scoreProperty(property)>>
                           ELSE <<>>,
         replaced      |-> replace]

LoopBody(dedup, seenKeys, property) ==
    LET normalizedAddress == normalizeText(property.endereco)
        key == MatchKey(seenKeys, normalizedAddress)
    IN  IF key = 0
        THEN NewBranch(dedup, seenKeys, property, normalizedAddress)
        ELSE DupBranch(dedup, seenKeys, property, key)

----------------------------------------------------------------------------
(* deduplicate.ts: the comparator and the final sort.  Array.prototype.sort *)
(* is stable; with a comparator that is not a consistent ordering of the    *)
(* elements the order is implementation-defined.                            *)

DiscountOrZero(p) == IF TruthyNumber(p.desconto) THEN p.desconto[1] ELSE 0

Compare(a, b) ==
    IF a.prioridade # b.prioridade
    THEN (IF a.prioridade = "true" THEN 0 - 1 ELSE 1)
    ELSE IF DiscountOrZero(a) # DiscountOrZero(b)
         THEN DiscountOrZero(b) - DiscountOrZero(a)
         ELSE a.lance - b.lance

Sign(n) == IF n < 0 THEN 0 - 1 ELSE IF n > 0 THEN 1 ELSE 0

ConsistentComparator(list) ==
    LET E == {list[i] : i \in 1..Len(list)}
    IN  /\ \A a, b \in E : Sign(Compare(a, b)) = 0 - Sign(Compare(b, a))
        /\ \A a, b, c \in E :
              /\ (Compare(a, b) <= 0 /\ Compare(b, c) <= 0) => Compare(a, c) <= 0
              /\ (Compare(a, b) = 0 /\ Compare(b, c) = 0) => Compare(a, c) = 0

\* x goes before the first element that must come after it
Insert(sorted, x) ==
    LET later == {i \in 1..Len(sorted) : Compare(x, sorted[i]) < 0}
        at    == IF later = {} THEN Len(sorted) + 1 ELSE FirstIndex(later)
    IN  SubSeq(sorted, 1, at - 1) \o <<x>> \o SubSeq(sorted, at, Len(sorted))

RECURSIVE StableSort(_)
StableSort(list) ==
    IF list = <<>> THEN <<>>
    ELSE Insert(StableSort(SubSeq(list, 1, Len(list) - 1)), list[Len(list)])

AllOrders(list) ==
    LET n == Len(list)
    IN  {[i \in 1..n |-> list[p[i]]] :
            p \in {q \in [1..n -> 1..n] : \A i, j \in 1..n : i # j => q[i] # q[j]}}

SortOutcomes(list) ==
    IF ConsistentComparator(list) THEN {StableSort(list)} ELSE AllOrders(list)

----------------------------------------------------------------------------
(* The inputs.  A Property carries the fields deduplicateProperties reads. *)

MkProp(id, endereco, lance, avaliacao, desconto, area, prioridade) ==
    [id |-> id, endereco |-> endereco, lance |-> lance,
     avaliacao |-> avaliacao, desconto |-> desconto, area |-> area,
     encerramento |-> "null", ocupacao |-> "desconhecido",
     modalidade |-> "Leilao", prioridade |-> prioridade]

\* A chain of slightly varying addresses over the letters a..h (1..8), X (9),
\* Y (10), Z (11): "Abc defgh", "YbcdefgX", "abcdefgX", "ZbcdefgX".
PropA == MkProp("a-1", <<101, 2, 3, 0, 4, 5, 6, 7, 8>>, 300000,
                <<>>, <<>>, "undefined", "false")

PropX == MkProp("x-1", <<10, 2, 3, 4, 5, 6, 7, 9>>, 310000,
                <<>>, <<>>, "undefined", "false")

PropB == MkProp("b-1", <<1, 2, 3, 4, 5, 6, 7, 9>>, 320000,
                <<500000>>, <<>>, "undefined", "false")

PropD == MkProp("d-1", <<11, 2, 3, 4, 5, 6, 7, 9, 0>>, 250000,
                <<500000>>, <<50>>, "undefined", "true")

ChainPool == {PropA, PropX, PropB, PropD}

\* One address in two spellings (lower case; upper case with a diacritic and a leading blank), every
\* combination of appraised value, discount and area.
TiePool ==
    {MkProp(<<"t", e, a, d, r>>,
            IF e = 1 THEN <<1, 2, 3, 4, 5, 6, 7, 8>>
                     ELSE <<0, 301, 102, 103, 104, 105, 106, 107, 108>>,
            300000, a, d, r, "false") :
        e \in {1, 2}, a \in {<<>>, <<500000>>}, d \in {<<>>, <<0>>, <<40>>},
        r \in {"undefined", "60m2"}}

\* Two addresses of 21 characters sharing 17 of their 20 bigrams (similarity
\* 34/40 = 0.85), and addresses of 18 and 17 characters sharing 14 bigrams
\* (similarity 28/33 = 0.8484...).
Boundary1 == [i \in 1..21 |-> i]

Boundary2 == [i \in 1..21 |-> IF i = 10 THEN 30 ELSE IF i = 21 THEN 31 ELSE i]

Below1 == [i \in 1..18 |-> 40 + i]

Below2 == [i \in 1..17 |-> IF i = 9 THEN 70 ELSE 40 + i]

BoundaryPool ==
    {MkProp("e-1", Boundary1, 300000, <<>>, <<>>, "undefined", "false"),
     MkProp("e-2", Boundary2, 290000, <<500000>>, <<42>>, "undefined", "false"),
     MkProp("f-1", Below1, 280000, <<>>, <<>>, "undefined", "true"),
     MkProp("f-2", Below2, 270000, <<500000>>, <<46>>, "60m2", "false")}

\* flat cut into nb batches at the places cuts
Split(flat, cuts, nb) ==
    [b \in 1..nb |->
        SubSeq(flat, (IF b = 1 THEN 0 ELSE cuts[b - 1]) + 1,
                     IF b = nb THEN Len(flat) ELSE cuts[b])]

\* Records at four unrelated addresses, with the priority flag true, false
\* and absent, and with equal and with different discounts and bid prices.
SortPool ==
    {MkProp("s-1", <<21, 22, 23>>, 300000, <<600000>>, <<50>>, "undefined", "true"),
     MkProp("s-2", <<31, 32, 33>>, 300001, <<300001>>, <<0>>, "undefined", "false"),
     MkProp("s-3", <<41, 42, 43>>, 300000, <<>>, <<>>, "undefined", "undefined"),
     MkProp("s-4", <<51, 52, 53>>, 300000, <<>>, <<>>, "undefined", "false")}

Cuts(len, nb) ==
    {c \in [1..(nb - 1) -> 0..len] :
        \A i, j \in 1..(nb - 1) : i <= j => c[i] <= c[j]}

\* s is a list of at most MaxBatches batches of at most n records in all:
\* a list of records cut into batches, some of them possibly empty
IsSourcesOver(s, pool, n) ==
    \E k \in 0..n : \E flat \in [1..k -> pool] :
        \E nb \in 0..MaxBatches :
            /\ nb = 0 => k = 0
            /\ \E cuts \in Cuts(k, nb) : s = Split(flat, cuts, nb)

----------------------------------------------------------------------------
(* The state machine: one call of deduplicateProperties, then a second     *)
(* call on the list the first one returned.                                *)

NoStep ==
    [property |-> <<>>, isDuplicate |-> FALSE, matchedKey |-> 0,
     existingIndex |-> 0, existing |-> <<>>, scores |-> <<>>,
     replaced |-> FALSE]

InitWith(pool, n) ==
    /\ IsSourcesOver(sources, pool, n)
    /\ allProperties = <<>>
    /\ pos = 1
    /\ deduplicated = <<>>
    /\ seen = <<>>
    /\ step = NoStep
    /\ result = <<>>
    /\ firstResult = <<>>
    /\ run = 1
    /\ pc = "idle"
    /\ OtherIdle

Init == InitWith(ChainPool, MaxRecords)

InitTie == InitWith(TiePool, MaxTieRecords)

InitBoundary == InitWith(BoundaryPool, MaxBoundaryRecords)

\* one batch of at most MaxSortRecords records
InitSort ==
    /\ \E k \in 0..MaxSortRecords : \E flat \in [1..k -> SortPool] :
          sources = <<flat>>
    /\ allProperties = <<>>
    /\ pos = 1
    /\ deduplicated = <<>>
    /\ seen = <<>>
    /\ step = NoStep
    /\ result = <<>>
    /\ firstResult = <<>>
    /\ run = 1
    /\ pc = "idle"
    /\ OtherIdle

\* const allProperties = sources.flat(); deduplicated = []; seen = new Set()
Flatten ==
    /\ pc = "idle"
    /\ allProperties' = Flat(sources)
    /\ pos' = 1
    /\ deduplicated' = <<>>
    /\ seen' = <<>>
    /\ step' = NoStep
    /\ pc' = "loop"
    /\ UNCHANGED <<sources, result, firstResult, run>>
    /\ UNCHANGED otherVars

\* one iteration of for (const property of allProperties)
ProcessRecord ==
    /\ pc = "loop"
    /\ pos <= Len(allProperties)
    /\ LET property == allProperties[pos]
           out == LoopBody(deduplicated, seen, property)
       IN  /\ deduplicated' = out.deduplicated
           /\ seen' = out.seen
           /\ step' = [property      |-> <<property>>,
                       isDuplicate   |-> out.isDuplicate,
                       matchedKey    |-> out.matchedKey,
                       existingIndex |-> out.existingIndex,
                       existing      |-> out.existing,
                       scores        |-> out.scores,
                       replaced      |-> out.replaced]
    /\ pos' = pos + 1
    /\ UNCHANGED <<sources, allProperties, result, firstResult, run, pc>>
    /\ UNCHANGED otherVars

\* deduplicated.sort(...); return deduplicated
SortAndReturn ==
    /\ pc = "loop"
    /\ pos > Len(allProperties)
    /\ \E sorted \in SortOutcomes(deduplicated) :
          /\ deduplicated' = sorted
          /\ result' = sorted
    /\ pc' = "done"
    /\ UNCHANGED <<sources, allProperties, pos, seen, step, firstResult, run>>
    /\ UNCHANGED otherVars

\* deduplicateProperties([deduplicateProperties(X)])
Rerun ==
    /\ pc = "done"
    /\ run = 1
    /\ sources' = <<result>>
    /\ firstResult' = result
    /\ run' = 2
    /\ pc' = "idle"
    /\ allProperties' = <<>>
    /\ pos' = 1
    /\ deduplicated' = <<>>
    /\ seen' = <<>>
    /\ step' = NoStep
    /\ result' = <<>>
    /\ UNCHANGED otherVars

Next == Flatten \/ ProcessRecord \/ SortAndReturn \/ Rerun

Spec == Init /\ [][Next]_vars

SpecTie == InitTie /\ [][Next]_vars

SpecBoundary == InitBoundary /\ [][Next]_vars

SpecSort == InitSort /\ [][Next]_vars

\* one batch of at most MaxLookupRecords records
InitLookup ==
    /\ \E k \in 0..MaxLookupRecords : \E flat \in [1..k -> ChainPool] :
          sources = <<flat>>
    /\ allProperties = <<>>
    /\ pos = 1
    /\ deduplicated = <<>>
    /\ seen = <<>>
    /\ step = NoStep
    /\ result = <<>>
    /\ firstResult = <<>>
    /\ run = 1
    /\ pc = "idle"
    /\ OtherIdle

SpecLookup == InitLookup /\ [][Next]_vars

----------------------------------------------------------------------------
(* markNewProperties(current, previous).  The novo field of a record is    *)
(* "true" or "false"; a record without the field has no novo flag.         *)

\* deduplicateProperties has not been called
DedupIdle ==
    /\ sources = <<>>
    /\ allProperties = <<>>
    /\ pos = 1
    /\ deduplicated = <<>>
    /\ seen = <<>>
    /\ step = NoStep
    /\ result = <<>>
    /\ firstResult = <<>>
    /\ run = 1
    /\ pc = "idle"

BoolWord(b) == IF b THEN "true" ELSE "false"

\* { ...property, novo: value }
WithNovo(property, value) ==
    [f \in DOMAIN property \cup {"novo"} |->
        IF f = "novo" THEN value ELSE property[f]]

\* new Set(previous.map(p => p.id))
PreviousIds(prev) == {prev[i].id : i \in 1..Len(prev)}

\* a variant that looks for the whole record in previous
IsNewByRecord(property, prev) ==
    \A i \in 1..Len(prev) : prev[i] # property

\* !previousIds.has(property.id)
IsNew(property, prev) == property.id \notin PreviousIds(prev)

\* a variant that writes the flag into the records of current
markNewPropertiesInPlace(cur, prev) ==
    LET out == [i \in 1..Len(cur) |->
                   WithNovo(cur[i], BoolWord(IsNew(cur[i], prev)))]
    IN  [current |-> out, previous |-> prev, returned |-> out]

\* current.map(property => ({ ...property, novo: ... })): a new list of new
\* objects; the arguments are only read
markNewProperties(cur, prev) ==
    LET out == [i \in 1..Len(cur) |->
                   WithNovo(cur[i], BoolWord(IsNew(cur[i], prev)))]
    IN  [current |-> cur, previous |-> prev, returned |-> out]

\* Snapshot records: two versions of the listing m-1 (the second with a new
\* bid price and a flag left by an earlier run) and two other listings.
MarkPool ==
    {MkProp("m-1", <<21, 22, 23>>, 300000, <<600000>>, <<50>>, "undefined", "true"),
     WithNovo(MkProp("m-1", <<21, 22, 23>>, 290000, <<600000>>, <<52>>,
                     "undefined", "true"), "true"),
     WithNovo(MkProp("m-2", <<31, 32, 33>>, 400000, <<>>, <<>>, "undefined",
                     "false"), "false"),
     WithNovo(MkProp("m-3", <<41, 42, 43>>, 500000, <<>>, <<>>, "undefined",
                     "false"), "true")}

ListsOver(pool, n) == UNION {[1..k -> pool] : k \in 0..n}

InitMark ==
    /\ DedupIdle
    /\ FilterIdle
    /\ PriorityIdle
    /\ ScrapeIdle
    /\ SimIdle
    /\ MapIdle
    /\ MainIdle
    /\ LoopIdle
    /\ current \in ListsOver(MarkPool, MaxMarkRecords)
    /\ previous \in ListsOver(MarkPool, MaxMarkRecords)
    /\ marked = <<>>
    /\ markPc = "idle"

\* markedProperties = markNewProperties(current, previous)
MarkNew ==
    /\ markPc = "idle"
    /\ LET out == markNewProperties(current, previous)
       IN  /\ current' = out.current
           /\ previous' = out.previous
           /\ marked' = out.returned
    /\ markPc' = "done"
    /\ UNCHANGED <<dedupVars, filterVars, priorityVars, scrapeVars, simVars, mapVars, mainVars, loopVars>>

NextMark == MarkNew

SpecMark == InitMark /\ [][NextMark]_vars

----------------------------------------------------------------------------
(* The filters: meetsFilters of the modular scrapers (utils.ts) and         *)
(* filterProperties of scrape.ts.                                           *)

MIN_DISCOUNT == 40

MAX_PRICE == 800000

\* utils.ts meetsFilters
meetsFilters(property) ==
    IF property.desconto = <<>> \/ property.desconto[1] < MIN_DISCOUNT
    THEN FALSE
    ELSE IF property.lance > MAX_PRICE
         THEN FALSE
         ELSE TRUE

\* the callback of properties.filter in scrape.ts filterProperties
filterKeeps(p) ==
    IF p.lance > MAX_PRICE
    THEN FALSE
    ELSE IF p.desconto[1] > 0 /\ p.desconto[1] < MIN_DISCOUNT
         THEN FALSE
         ELSE IF p.fonte = "Caixa Economica" /\ p.desconto[1] = 0
              THEN FALSE
              ELSE TRUE

\* list.filter(keep), for keep given as the set of the records it accepts
RECURSIVE FilterList(_, _)
FilterList(list, accepted) ==
    IF list = <<>> THEN <<>>
    ELSE IF Head(list) \in accepted
         THEN <<Head(list)>> \o FilterList(Tail(list), accepted)
         ELSE FilterList(Tail(list), accepted)

\* Parsed listings around the two thresholds, with the discount missing,
\* zero, and just below, at and above 40.
FilterPool ==
    {[fonte |-> f, lance |-> l, desconto |-> d] :
        f \in {"Caixa Economica", "Zuk"},
        l \in {MAX_PRICE - 1, MAX_PRICE, MAX_PRICE + 1},
        d \in {<<>>, <<0>>, <<MIN_DISCOUNT - 1>>, <<MIN_DISCOUNT>>,
               <<MIN_DISCOUNT + 1>>}}

InitFilter ==
    /\ DedupIdle
    /\ MarkIdle
    /\ PriorityIdle
    /\ ScrapeIdle
    /\ SimIdle
    /\ MapIdle
    /\ MainIdle
    /\ LoopIdle
    /\ candidates \in ListsOver(FilterPool, MaxFilterRecords)
    /\ kept = <<>>
    /\ filterPc = "idle"

\* a modular scraper: if (property && meetsFilters(property)) push
ApplyMeetsFilters ==
    /\ filterPc = "idle"
    /\ kept' = FilterList(candidates, {p \in FilterPool : meetsFilters(p)})
    /\ filterPc' = "meetsFilters"
    /\ UNCHANGED <<candidates, dedupVars, markVars, priorityVars, scrapeVars, simVars, mapVars, mainVars, loopVars>>

\* scrape.ts: filterProperties(all); its records always carry a discount
ApplyFilterProperties ==
    /\ filterPc = "idle"
    /\ \A i \in 1..Len(candidates) : candidates[i].desconto # <<>>
    /\ kept' = FilterList(candidates,
                          {p \in FilterPool : p.desconto # <<>> /\ filterKeeps(p)})
    /\ filterPc' = "filterProperties"
    /\ UNCHANGED <<candidates, dedupVars, markVars, priorityVars, scrapeVars, simVars, mapVars, mainVars, loopVars>>

NextFilter == ApplyMeetsFilters \/ ApplyFilterProperties

SpecFilter == InitFilter /\ [][NextFilter]_vars

----------------------------------------------------------------------------
(* The priority matchers: isPriorityNeighborhood of utils.ts and isPriority *)
(* of scrape.ts.                                                            *)

\* Batel, Cabral, Merces (e circumflex), Taruma (a tilde), Jardim das
\* Americas (e acute), Jardim Social, Centro
PRIORITY_NEIGHBORHOODS ==
    <<<<102, 1, 20, 5, 12>>,
      <<103, 1, 2, 18, 1, 12>>,
      <<113, 5, 18, 3, 205, 19>>,
      <<120, 1, 18, 21, 13, 201>>,
      <<110, 1, 18, 4, 9, 13, 0, 4, 1, 19, 0, 101, 13, 205, 18, 9, 3, 1, 19>>,
      <<110, 1, 18, 4, 9, 13, 0, 119, 15, 3, 9, 1, 12>>,
      <<103, 5, 14, 20, 18, 15>>>>

\* Agua Verde, Batel, Bigorrilho, Centro, Portao, Reboucas, Alto da XV,
\* Cristo Rei, Jardim Social, Juveve, Hugo Lange, Cabral, Boa Vista,
\* Bacacheri, Taruma, with their diacritics
PRIORITY_BAIRROS ==
    <<<<301, 7, 21, 1, 0, 122, 5, 18, 4, 5>>,
      <<102, 1, 20, 5, 12>>,
      <<102, 9, 7, 15, 18, 18, 9, 12, 8, 15>>,
      <<103, 5, 14, 20, 18, 15>>,
      <<116, 15, 18, 20, 201, 15>>,
      <<118, 5, 2, 15, 21, 203, 1, 19>>,
      <<101, 12, 20, 15, 0, 4, 1, 0, 124, 122>>,
      <<103, 18, 9, 19, 20, 15, 0, 118, 5, 9>>,
      <<110, 1, 18, 4, 9, 13, 0, 119, 15, 3, 9, 1, 12>>,
      <<110, 21, 22, 5, 22, 205>>,
      <<108, 21, 7, 15, 0, 112, 1, 14, 7, 5>>,
      <<103, 1, 2, 18, 1, 12>>,
      <<102, 15, 1, 0, 122, 9, 19, 20, 1>>,
      <<102, 1, 3, 1, 3, 8, 5, 18, 9>>,
      <<120, 1, 18, 21, 13, 201>>>>

\* s.toLowerCase()
LowerCase(s) == [i \in 1..Len(s) |-> ToLowerCase(s[i])]

ToUpperCase(c) ==
    IF (c >= 1 /\ c <= 26) \/ (c >= 201 /\ c <= 226) THEN c + 100 ELSE c

\* s.toUpperCase()
UpperCase(s) == [i \in 1..Len(s) |-> ToUpperCase(s[i])]

\* s.includes(sub)
Includes(s, sub) ==
    \E i \in 0..(Len(s) - Len(sub)) : SubSeq(s, i + 1, i + Len(sub)) = sub

\* a variant that only looks for a priority name inside bairro
isPriorityNeighborhoodOneWay(bairro) ==
    \E k \in 1..Len(PRIORITY_NEIGHBORHOODS) :
        Includes(LowerCase(bairro), LowerCase(PRIORITY_NEIGHBORHOODS[k]))

\* utils.ts isPriorityNeighborhood
isPriorityNeighborhood(bairro) ==
    \E k \in 1..Len(PRIORITY_NEIGHBORHOODS) :
        \/ Includes(LowerCase(bairro), LowerCase(PRIORITY_NEIGHBORHOODS[k]))
        \/ Includes(LowerCase(PRIORITY_NEIGHBORHOODS[k]), LowerCase(bairro))

\* scrape.ts normalize: NFD, strip the combining marks, toLowerCase, trim
normalize(s) == Trim([i \in 1..Len(s) |-> ToLowerCase(StripDiacritic(s[i]))])

PRIORITY_BAIRROS_NORMALIZED ==
    [k \in 1..Len(PRIORITY_BAIRROS) |-> normalize(PRIORITY_BAIRROS[k])]

\* scrape.ts isPriority
isPriority(bairro) ==
    LET n == normalize(bairro)
    IN  \E k \in 1..Len(PRIORITY_BAIRROS_NORMALIZED) :
            \/ Includes(n, PRIORITY_BAIRROS_NORMALIZED[k])
            \/ Includes(PRIORITY_BAIRROS_NORMALIZED[k], n)

\* Neighborhood names: five priority names and parts of them, the same
\* without the diacritic, two other names and the empty text
BairroBases ==
    {<<102, 1, 20, 5, 12>>,
     <<103, 5, 14, 20, 18, 15>>,
     <<120, 1, 18, 21, 13, 201>>,
     <<120, 1, 18, 21, 13, 1>>,
     <<113, 5, 18, 3, 205, 19>>,
     <<110, 1, 18, 4, 9, 13>>,
     <<102, 1, 20>>,
     <<124, 1, 24, 9, 13>>,
     <<116, 15, 18, 20, 201, 15>>,
     <<>>}

\* " de SJP", " (Sao Jose Dos Pinhais)" with its diacritics, " Sul"
BairroSuffixes ==
    {<<>>,
     <<0, 4, 5, 0, 119, 110, 116>>,
     <<0, 30, 119, 201, 15, 0, 110, 15, 19, 205, 0, 104, 15, 19, 0, 116, 9, 14, 8, 1, 9, 19, 31>>,
     <<0, 119, 21, 12>>}

\* every base as written, in upper case and in lower case, with every suffix
BairroPool ==
    {c \o x : c \in UNION {{b, UpperCase(b), LowerCase(b)} : b \in BairroBases},
              x \in BairroSuffixes}

InitPriority ==
    /\ DedupIdle
    /\ MarkIdle
    /\ FilterIdle
    /\ ScrapeIdle
    /\ SimIdle
    /\ MapIdle
    /\ MainIdle
    /\ LoopIdle
    /\ bairroArg \in BairroPool
    /\ priorityOut = FALSE
    /\ priorityPc = "idle"

\* a call of isPriorityNeighborhood(bairro)
CallIsPriorityNeighborhood ==
    /\ priorityPc = "idle"
    /\ priorityOut' = isPriorityNeighborhood(bairroArg)
    /\ priorityPc' = "isPriorityNeighborhood"
    /\ UNCHANGED <<bairroArg, dedupVars, markVars, filterVars, scrapeVars, simVars, mapVars, mainVars, loopVars>>

\* a call of isPriority(bairro)
CallIsPriority ==
    /\ priorityPc = "idle"
    /\ priorityOut' = isPriority(bairroArg)
    /\ priorityPc' = "isPriority"
    /\ UNCHANGED <<bairroArg, dedupVars, markVars, filterVars, scrapeVars, simVars, mapVars, mainVars, loopVars>>

NextPriority == CallIsPriorityNeighborhood \/ CallIsPriority

SpecPriority == InitPriority /\ [][NextPriority]_vars

----------------------------------------------------------------------------
(* The scrapers: what each one makes of the texts of one listing.  Money    *)
(* amounts are in centavos and discounts in hundredths of a percent, so     *)
(* that a text with two decimals keeps its value.                           *)

Dash == 32

Comma == 33

Dot == 34

IsDigit(c) == c >= 40 /\ c <= 49

\* the longest run of digits s starts with
RECURSIVE LeadingDigits(_)
LeadingDigits(s) ==
    IF s # <<>> /\ IsDigit(Head(s))
    THEN <<Head(s)>> \o LeadingDigits(Tail(s))
    ELSE <<>>

\* the number a run of digits denotes
RECURSIVE DigitsValue(_)
DigitsValue(digits) ==
    IF digits = <<>> THEN 0
    ELSE 10 * DigitsValue(SubSeq(digits, 1, Len(digits) - 1))
             + (digits[Len(digits)] - 40)

\* the first two decimals of a fraction, in hundredths
Hundredths(frac) ==
    (IF Len(frac) >= 1 THEN 10 * (frac[1] - 40) ELSE 0)
        + (IF Len(frac) >= 2 THEN frac[2] - 40 ELSE 0)

\* parseFloat(s) in hundredths, <<>> for NaN: blanks, an optional minus
\* sign, digits, an optional dot and digits; whatever follows is ignored
parseFloat(s) ==
    LET t    == TrimStart(s)
        neg  == t # <<>> /\ Head(t) = Dash
        body == IF neg THEN Tail(t) ELSE t
        int  == LeadingDigits(body)
        rest == SubSeq(body, Len(int) + 1, Len(body))
        frac == IF rest # <<>> /\ Head(rest) = Dot
                THEN LeadingDigits(Tail(rest)) ELSE <<>>
        abs  == 100 * DigitsValue(int) + Hundredths(frac)
    IN  IF int = <<>> /\ frac = <<>> THEN <<>>
        ELSE <<IF neg THEN 0 - abs ELSE abs>>

\* s.replace(from, to) for single characters: the first occurrence only
RECURSIVE ReplaceFirst(_, _, _)
ReplaceFirst(s, from, to) ==
    IF s = <<>> THEN <<>>
    ELSE IF Head(s) = from THEN <<to>> \o Tail(s)
         ELSE <<Head(s)>> \o ReplaceFirst(Tail(s), from, to)

\* utils.ts parsePrice: <<>> for null
parsePrice(priceStr) ==
    LET cleaned == ReplaceFirst(
                       SelectSeq(priceStr, LAMBDA c : IsDigit(c) \/ c = Comma),
                       Comma, Dot)
    IN  parseFloat(cleaned)

\* Math.round(p / q) for q > 0
RoundDiv(p, q) == (2 * p + q) \div (2 * q)

\* utils.ts calculateDiscount
calculateDiscount(avaliacao, lance) ==
    100 * RoundDiv((avaliacao - lance) * 100, avaliacao)

\* s.split(separators): the pieces between the separator characters
RECURSIVE SplitBy(_, _)
SplitBy(s, separators) ==
    LET cut == {i \in 1..Len(s) : s[i] \in separators}
    IN  IF cut = {} THEN <<s>>
        ELSE LET i == CHOOSE j \in cut : \A k \in cut : j <= k
             IN  <<SubSeq(s, 1, i - 1)>>
                     \o SplitBy(SubSeq(s, i + 1, Len(s)), separators)

\* 'Desconhecido'
Desconhecido == <<104, 5, 19, 3, 15, 14, 8, 5, 3, 9, 4, 15>>

\* modular scrape-zuk.ts: bairroEl || endereco.split('-')[1]?.trim() || ...
ZukBairro(bairroEl, endereco) ==
    LET parts == SplitBy(endereco, {Dash})
    IN  IF bairroEl # <<>> THEN bairroEl
        ELSE IF Len(parts) > 1 /\ Trim(parts[2]) # <<>> THEN Trim(parts[2])
             ELSE Desconhecido

\* scrape-leilaoimovel.ts: the piece before the last one of the address
LeilaoImovelBairro(bairroEl, endereco) ==
    LET parts == SplitBy(endereco, {Comma})
    IN  IF bairroEl # <<>> THEN bairroEl
        ELSE IF Len(parts) > 1 THEN Trim(parts[Len(parts) - 1])
             ELSE Desconhecido

\* scrape-caixa.ts: the second piece of the address, or the city
CaixaBairro(bairroEl, endereco, city) ==
    LET parts == SplitBy(endereco, {Dash, Comma})
    IN  IF bairroEl # <<>> THEN bairroEl
        ELSE IF Len(parts) > 1 THEN Trim(parts[2])
             ELSE city

\* The record a modular parser returns for a listing, <<>> when it returns
\* null: the address must not be empty and the bid price must be truthy.
ModularRecord(fonte, bairro, endereco, lanceStr, avaliacaoStr) ==
    LET lance     == parsePrice(lanceStr)
        avaliacao == parsePrice(avaliacaoStr)
        desconto  == IF TruthyNumber(avaliacao) /\ TruthyNumber(lance)
                     THEN <<calculateDiscount(avaliacao[1], lance[1])>>
                     ELSE <<>>
    IN  IF endereco = <<>> THEN <<>>
        ELSE IF ~TruthyNumber(lance) THEN <<>>
        ELSE <<[fonte      |-> fonte,
                bairro     |-> bairro,
                endereco   |-> endereco,
                lance      |-> lance[1],
                avaliacao  |-> avaliacao,
                desconto   |-> desconto,
                prioridade |-> BoolWord(isPriorityNeighborhood(bairro))]>>

\* scrape.ts parseBRL: "R$ 383.675,28" gives 383675.28; NaN and 0 give 0
parseBRL(s) ==
    LET noMarks == SelectSeq(s, LAMBDA c : c # 118 /\ c # 35 /\ ~IsBlank(c))
        noDots  == SelectSeq(noMarks, LAMBDA c : c # Dot)
        clean   == ReplaceFirst(noDots, Comma, Dot)
        value   == parseFloat(clean)
    IN  IF TruthyNumber(value) THEN value[1] ELSE 0

\* scrape.ts titleCase: every match of \w\S* gets its first character in
\* upper case and the rest in lower case
IsWordChar(c) == (c >= 1 /\ c <= 26) \/ (c >= 101 /\ c <= 126) \/ IsDigit(c)

RECURSIVE TitleCaseFrom(_, _)
TitleCaseFrom(s, inWord) ==
    IF s = <<>> THEN <<>>
    ELSE LET c == Head(s)
         IN  IF inWord
             THEN IF IsBlank(c)
                  THEN <<c>> \o TitleCaseFrom(Tail(s), FALSE)
                  ELSE <<ToLowerCase(c)>> \o TitleCaseFrom(Tail(s), TRUE)
             ELSE IF IsWordChar(c)
                  THEN <<ToUpperCase(c)>> \o TitleCaseFrom(Tail(s), TRUE)
                  ELSE <<c>> \o TitleCaseFrom(Tail(s), FALSE)

titleCase(s) == TitleCaseFrom(s, FALSE)

\* locationSpan.match(/- (.+)$/): the text after the first "- " that has
\* something after it, <<>> when there is no match
AfterDash(locationSpan) ==
    LET at == {i \in 1..(Len(locationSpan) - 2) :
                  locationSpan[i] = Dash /\ IsBlank(locationSpan[i + 1])}
    IN  IF at = {} THEN <<>>
        ELSE LET i == CHOOSE j \in at : \A k \in at : j <= k
             IN  <<SubSeq(locationSpan, i + 2, Len(locationSpan))>>

\* percentText.match(/(\d+)/): the first run of digits, <<>> for no match
FirstDigitRun(s) ==
    LET at == {i \in 1..Len(s) : IsDigit(s[i])}
    IN  IF at = {} THEN <<>>
        ELSE LET i == CHOOSE j \in at : \A k \in at : j <= k
             IN  <<LeadingDigits(SubSeq(s, i, Len(s)))>>

\* Math.round((1 - lance / avaliacao) * 100)
RoundedDiscount(avaliacao, lance) ==
    100 * RoundDiv((avaliacao - lance) * 100, avaliacao)

\* the fallback loop of scrapeZukListing over the price values of the card
RECURSIVE LastPositivePrices(_, _, _)
LastPositivePrices(values, avaliacao, lance) ==
    IF values = <<>> THEN [avaliacao |-> avaliacao, lance |-> lance]
    ELSE LET v == parseBRL(Head(values))
         IN  IF v > 0
             THEN LastPositivePrices(Tail(values),
                                     IF avaliacao = 0 THEN v ELSE avaliacao, v)
             ELSE LastPositivePrices(Tail(values), avaliacao, lance)

\* scrape.ts scrapeZukListing, one card.  A card with data-pracas "2" has
\* a price labelled 1st and a price labelled 2nd, a card with "1" has the
\* one price labelled Valor, any other card has its prices unlabelled.
ZukCardRecord(locationSpan, cityName, numPracas, firstValue, secondValue, percentText) ==
    LET bairroMatch == AfterDash(locationSpan)
        bairro  == IF bairroMatch # <<>> THEN Trim(bairroMatch[1]) ELSE cityName
        values  == IF numPracas = "1" THEN <<secondValue>>
                   ELSE <<firstValue, secondValue>>
        percentMatch == FirstDigitRun(Trim(percentText))
        av1     == IF numPracas = "2" THEN parseBRL(firstValue)
                   ELSE IF numPracas = "1" THEN parseBRL(secondValue) ELSE 0
        lance1  == IF numPracas \in {"1", "2"} THEN parseBRL(secondValue) ELSE 0
        desc1   == IF numPracas # "2" THEN 0
                   ELSE IF percentMatch # <<>>
                        THEN 100 * DigitsValue(percentMatch[1])
                        ELSE IF av1 > 0 /\ lance1 > 0
                             THEN RoundedDiscount(av1, lance1) ELSE 0
        found   == LastPositivePrices(values, av1, lance1)
        av2     == IF lance1 = 0 THEN found.avaliacao ELSE av1
        lance2  == IF lance1 = 0 THEN found.lance ELSE lance1
        desc2   == IF lance1 = 0 /\ av2 > 0 /\ lance2 > 0 /\ lance2 < av2
                   THEN RoundedDiscount(av2, lance2) ELSE desc1
    IN  IF lance2 = 0 THEN <<>>
        ELSE <<[fonte      |-> "Portal Zuk",
                bairro     |-> bairro,
                endereco   |-> <<>>,
                lance      |-> lance2,
                avaliacao  |-> <<av2>>,
                desconto   |-> <<desc2>>,
                prioridade |-> BoolWord(isPriority(bairro))]>>

\* CURITIBA
Curitiba == <<103, 121, 118, 109, 120, 109, 102, 101>>

\* CURITIBA, FAZENDA RIO GRANDE, SAO JOSE DOS PINHAIS, PINHAIS, COLOMBO,
\* ARAUCARIA, CAMPO LARGO, ALMIRANTE TAMANDARE
CAIXA_TARGET_CITIES ==
    {<<103, 121, 118, 109, 120, 109, 102, 101>>,
     <<106, 101, 126, 105, 114, 104, 101, 0, 118, 109, 115, 0, 107, 118, 101, 114, 104, 105>>,
     <<119, 101, 115, 0, 110, 115, 119, 105, 0, 104, 115, 119, 0, 116, 109, 114, 108, 101, 109, 119>>,
     <<116, 109, 114, 108, 101, 109, 119>>,
     <<103, 115, 112, 115, 113, 102, 115>>,
     <<101, 118, 101, 121, 103, 101, 118, 109, 101>>,
     <<103, 101, 113, 116, 115, 0, 112, 101, 118, 107, 115>>,
     <<101, 112, 113, 109, 118, 101, 114, 120, 105, 0, 120, 101, 113, 101, 114, 104, 101, 118, 105>>}

\* scrape.ts scrapeCaixa, one line of the CSV with its eleven fields
CaixaLineRecord(cidade, bairro, endereco, precoStr, avaliacaoStr, descontoStr) ==
    LET cidadeNorm    == Trim(UpperCase(cidade))
        preco         == parseBRL(precoStr)
        avaliacao     == parseBRL(avaliacaoStr)
        parsed        == parseFloat(descontoStr)
        desconto      == IF TruthyNumber(parsed) THEN parsed[1] ELSE 0
        bairroDisplay == titleCase(LowerCase(bairro))
        bairroFinal   == IF cidadeNorm = Curitiba THEN bairroDisplay
                         ELSE bairroDisplay \o <<0, 30>>
                                  \o titleCase(LowerCase(cidade)) \o <<31>>
    IN  IF cidadeNorm \notin CAIXA_TARGET_CITIES THEN <<>>
        ELSE IF preco = 0 THEN <<>>
        ELSE <<[fonte      |-> "Caixa Economica",
                bairro     |-> bairroFinal,
                endereco   |-> endereco,
                lance      |-> preco,
                avaliacao  |-> <<IF avaliacao > 0 THEN avaliacao ELSE preco>>,
                desconto   |-> <<desconto>>,
                prioridade |-> BoolWord(isPriority(bairro))]>>

\* Listing texts.  Neighborhoods: Batel, Centro de SJP, CENTRO, JARDIM,
\* Xaxim and none.
BairroTexts ==
    {<<102, 1, 20, 5, 12>>,
     <<103, 5, 14, 20, 18, 15, 0, 4, 5, 0, 119, 110, 116>>,
     <<103, 105, 114, 120, 118, 115>>,
     <<110, 101, 118, 104, 109, 113>>,
     <<124, 1, 24, 9, 13>>,
     <<>>}

\* "Rua A, 10 - Centro", "Rua A" and the empty address
EnderecoTexts ==
    {<<118, 21, 1, 0, 101, 33, 0, 41, 40, 0, 32, 0, 103, 5, 14, 20, 18, 15>>,
     <<118, 21, 1, 0, 101>>,
     <<>>}

\* CURITIBA, SAO JOSE DOS PINHAIS and a city that is not a target: LONDRINA
CityTexts ==
    {<<103, 121, 118, 109, 120, 109, 102, 101>>,
     <<119, 101, 115, 0, 110, 115, 119, 105, 0, 104, 115, 119, 0, 116, 109, 114, 108, 101, 109, 119>>,
     <<112, 115, 114, 104, 118, 109, 114, 101>>}

\* "R$ 3.000,00", "R$ 5.000,00", no text, "R$ 0,00", "R$ -100,00",
\* "R$ 2.999,50": amounts small enough for 32-bit arithmetic in centavos
PriceTextList ==
    <<<<118, 35, 0, 43, 34, 40, 40, 40, 33, 40, 40>>,
      <<118, 35, 0, 45, 34, 40, 40, 40, 33, 40, 40>>,
      <<>>,
      <<118, 35, 0, 40, 33, 40, 40>>,
      <<118, 35, 0, 32, 41, 40, 40, 33, 40, 40>>,
      <<118, 35, 0, 42, 34, 49, 49, 49, 33, 45, 40>>>>

PriceTexts ==
    {PriceTextList[k] : k \in 1..Len(PriceTextList)} \cap
        {PriceTextList[k] : k \in 1..MaxPriceTexts}

\* "Curitiba / PR - Centro", "Pinhais / PR - Centro", "Curitiba / PR",
\* "Curitiba / PR - Jardim"
LocationTexts ==
    {<<103, 21, 18, 9, 20, 9, 2, 1, 0, 36, 0, 116, 118, 0, 32, 0, 103, 5, 14, 20, 18, 15>>,
     <<116, 9, 14, 8, 1, 9, 19, 0, 36, 0, 116, 118, 0, 32, 0, 103, 5, 14, 20, 18, 15>>,
     <<103, 21, 18, 9, 20, 9, 2, 1, 0, 36, 0, 116, 118>>,
     <<103, 21, 18, 9, 20, 9, 2, 1, 0, 36, 0, 116, 118, 0, 32, 0, 110, 1, 18, 4, 9, 13>>}

\* "40%", "50%" and no percent text
PercentTexts ==
    {<<44, 40, 37>>,
     <<45, 40, 37>>,
     <<>>}

\* the Desconto column: "40.00", "50.5", "0" and empty
DescontoTexts ==
    {<<44, 40, 34, 40, 40>>,
     <<45, 40, 34, 45>>,
     <<40>>,
     <<>>}

ModularListings ==
    {[site |-> s, bairroEl |-> b, endereco |-> e, city |-> c,
      lanceStr |-> l, avaliacaoStr |-> a] :
        s \in {"scrape-zuk.ts", "scrape-leilaoimovel.ts", "scrape-caixa.ts"},
        b \in BairroTexts, e \in EnderecoTexts,
        c \in {Curitiba}, l \in PriceTexts, a \in PriceTexts}

ZukCards ==
    {[site |-> "scrape.ts zuk", locationSpan |-> loc, cityName |-> c,
      numPracas |-> n, firstValue |-> f, secondValue |-> s,
      percentText |-> p] :
        loc \in LocationTexts, c \in {Curitiba}, n \in {"1", "2", "undefined"},
        f \in PriceTexts, s \in PriceTexts, p \in PercentTexts}

CaixaLines ==
    {[site |-> "scrape.ts caixa", cidade |-> c, bairro |-> b,
      endereco |-> e, precoStr |-> l, avaliacaoStr |-> a,
      descontoStr |-> d] :
        c \in CityTexts, b \in BairroTexts, e \in {<<>>},
        l \in PriceTexts, a \in PriceTexts, d \in DescontoTexts}

InitScrape ==
    /\ DedupIdle
    /\ MarkIdle
    /\ FilterIdle
    /\ PriorityIdle
    /\ SimIdle
    /\ MapIdle
    /\ MainIdle
    /\ LoopIdle
    /\ listing \in ModularListings \cup ZukCards \cup CaixaLines
    /\ emitted = <<>>
    /\ scrapePc = "idle"

\* modular scrape-zuk.ts parseZukProperty
ParseZukProperty ==
    /\ scrapePc = "idle"
    /\ listing.site = "scrape-zuk.ts"
    /\ emitted' = ModularRecord("Portal Zuk",
                      ZukBairro(listing.bairroEl, listing.endereco),
                      listing.endereco, listing.lanceStr, listing.avaliacaoStr)
    /\ scrapePc' = "done"
    /\ UNCHANGED <<listing, dedupVars, markVars, filterVars, priorityVars, simVars, mapVars, mainVars, loopVars>>

\* scrape-leilaoimovel.ts parseLeilaoImovelProperty
ParseLeilaoImovelProperty ==
    /\ scrapePc = "idle"
    /\ listing.site = "scrape-leilaoimovel.ts"
    /\ emitted' = ModularRecord("Leilao Imovel",
                      LeilaoImovelBairro(listing.bairroEl, listing.endereco),
                      listing.endereco, listing.lanceStr, listing.avaliacaoStr)
    /\ scrapePc' = "done"
    /\ UNCHANGED <<listing, dedupVars, markVars, filterVars, priorityVars, simVars, mapVars, mainVars, loopVars>>

\* scrape-caixa.ts parseCaixaProperty
ParseCaixaProperty ==
    /\ scrapePc = "idle"
    /\ listing.site = "scrape-caixa.ts"
    /\ emitted' = ModularRecord("Caixa",
                      CaixaBairro(listing.bairroEl, listing.endereco, listing.city),
                      listing.endereco, listing.lanceStr, listing.avaliacaoStr)
    /\ scrapePc' = "done"
    /\ UNCHANGED <<listing, dedupVars, markVars, filterVars, priorityVars, simVars, mapVars, mainVars, loopVars>>

\* scrape.ts scrapeZukListing: the callback of the loop over the cards
ScrapeZukCard ==
    /\ scrapePc = "idle"
    /\ listing.site = "scrape.ts zuk"
    /\ emitted' = ZukCardRecord(listing.locationSpan, listing.cityName,
                      listing.numPracas, listing.firstValue,
                      listing.secondValue, listing.percentText)
    /\ scrapePc' = "done"
    /\ UNCHANGED <<listing, dedupVars, markVars, filterVars, priorityVars, simVars, mapVars, mainVars, loopVars>>

\* scrape.ts scrapeCaixa: one iteration of the loop over the CSV lines
ScrapeCaixaLine ==
    /\ scrapePc = "idle"
    /\ listing.site = "scrape.ts caixa"
    /\ emitted' = CaixaLineRecord(listing.cidade, listing.bairro,
                      listing.endereco, listing.precoStr,
                      listing.avaliacaoStr, listing.descontoStr)
    /\ scrapePc' = "done"
    /\ UNCHANGED <<listing, dedupVars, markVars, filterVars, priorityVars, simVars, mapVars, mainVars, loopVars>>

NextScrape ==
    \/ ParseZukProperty
    \/ ParseLeilaoImovelProperty
    \/ ParseCaixaProperty
    \/ ScrapeZukCard
    \/ ScrapeCaixaLine

SpecScrape == InitScrape /\ [][NextScrape]_vars

----------------------------------------------------------------------------
(* The similarity test of the loop of deduplicateProperties on its own:    *)
(* one address against one seen address.                                   *)

\* a variant that never takes an address for a duplicate of itself
IsSimilarOfDistinct(normalizedAddress, existingAddress) ==
    /\ normalizedAddress # existingAddress
    /\ AtLeastThreshold(compareTwoStrings(normalizedAddress, existingAddress))

\* similarity >= ADDRESS_SIMILARITY_THRESHOLD
IsSimilar(normalizedAddress, existingAddress) ==
    AtLeastThreshold(compareTwoStrings(normalizedAddress, existingAddress))

\* a blank, a, b, A and a with a diacritic
TextAlphabet == {0, 1, 2, 101, 201}

\* every text of at most MaxTextLen characters
Texts == UNION {[1..k -> TextAlphabet] : k \in 0..MaxTextLen}

InitSimilarity ==
    /\ DedupIdle
    /\ MarkIdle
    /\ FilterIdle
    /\ PriorityIdle
    /\ ScrapeIdle
    /\ MapIdle
    /\ MainIdle
    /\ LoopIdle
    /\ simFirst \in Texts
    /\ simSecond \in Texts
    /\ simValue = [num |-> 0, den |-> 1]
    /\ simDuplicate = FALSE
    /\ simPc = "idle"

\* normalizeText of both addresses, compareTwoStrings, the threshold test
CompareAddresses ==
    /\ simPc = "idle"
    /\ LET normalizedAddress == normalizeText(simFirst)
           existingAddress   == normalizeText(simSecond)
       IN  /\ simValue' = compareTwoStrings(normalizedAddress, existingAddress)
           /\ simDuplicate' = IsSimilar(normalizedAddress, existingAddress)
    /\ simPc' = "done"
    /\ UNCHANGED <<simFirst, simSecond, dedupVars, markVars, filterVars,
                   priorityVars, scrapeVars, mapVars, mainVars, loopVars>>

NextSimilarity == CompareAddresses

SpecSimilarity == InitSimilarity /\ [][NextSimilarity]_vars

----------------------------------------------------------------------------
(* scrape.ts: deduplicateProperties, over a Map from the key of an address *)
(* to a record.  The Map is the list of its entries in insertion order;    *)
(* set on a key it holds replaces the value and keeps the entry's place.   *)

MaxMapRecords == 3

\* normalize(p.endereco).replace(/\s+/g, "")
DedupKey(p) == RemoveWhitespace(normalize(p.endereco))

MapHas(entries, key) == \E i \in 1..Len(entries) : entries[i].key = key

MapGet(entries, key) ==
    entries[CHOOSE i \in 1..Len(entries) : entries[i].key = key].value

MapSet(entries, key, value) ==
    IF MapHas(entries, key)
    THEN [i \in 1..Len(entries) |->
             IF entries[i].key = key
             THEN [key |-> key, value |-> value]
             ELSE entries[i]]
    ELSE Append(entries, [key |-> key, value |-> value])

\* a variant in which a record of equal discount replaces the one held
ShouldSetOnTie(entries, key, p) ==
    \/ ~MapHas(entries, key)
    \/ p.desconto[1] >= MapGet(entries, key).desconto[1]

\* !seen.has(key) || p.desconto > (seen.get(key)?.desconto ?? 0)
ShouldSet(entries, key, p) ==
    \/ ~MapHas(entries, key)
    \/ p.desconto[1] > MapGet(entries, key).desconto[1]

\* the Map after the loop over properties[1..n]
RECURSIVE SeenAfter(_, _)
SeenAfter(properties, n) ==
    IF n = 0 THEN <<>>
    ELSE LET entries == SeenAfter(properties, n - 1)
             p       == properties[n]
             key     == DedupKey(p)
         IN  IF ShouldSet(entries, key, p)
             THEN MapSet(entries, key, p)
             ELSE entries

\* Array.from(seen.values())
deduplicateProperties(properties) ==
    LET entries == SeenAfter(properties, Len(properties))
    IN  [i \in 1..Len(entries) |-> entries[i].value]

\* Records at "a b", "Ab " and "c", the first two with one key, with a
\* negative, a zero and a positive discount
MapPool ==
    {[id |-> id, endereco |-> e, desconto |-> <<d>>] :
        id \in {"m-1", "m-2"},
        e \in {<<1, 0, 2>>, <<101, 2, 0>>, <<3>>},
        d \in {0 - 5, 0, 50}}

InitMap ==
    /\ DedupIdle
    /\ MarkIdle
    /\ FilterIdle
    /\ PriorityIdle
    /\ ScrapeIdle
    /\ SimIdle
    /\ MainIdle
    /\ LoopIdle
    /\ mapInput \in ListsOver(MapPool, MaxMapRecords)
    /\ mapOutput = <<>>
    /\ mapPc = "idle"

CallDeduplicateProperties ==
    /\ mapPc = "idle"
    /\ mapOutput' = deduplicateProperties(mapInput)
    /\ mapPc' = "done"
    /\ UNCHANGED <<mapInput, dedupVars, markVars, filterVars, priorityVars,
                   scrapeVars, simVars, mainVars, loopVars>>

NextMap == CallDeduplicateProperties

SpecMap == InitMap /\ [][NextMap]_vars

----------------------------------------------------------------------------
(* scrape.ts: main.  A scraper of scrape.ts catches every failure of its   *)
(* own and returns the records it has, possibly none.                      *)

\* properties.filter(...) of filterProperties
filterProperties(properties) == SelectSeq(properties, filterKeeps)

\* the comparator of sortProperties
sortCompare(a, b) ==
    IF a.prioridade # b.prioridade
    THEN IF a.prioridade THEN 0 - 1 ELSE 1
    ELSE b.desconto[1] - a.desconto[1]

\* Array.prototype.sort with sortCompare: stable
RECURSIVE sortProperties(_)
sortProperties(properties) ==
    IF properties = <<>> THEN <<>>
    ELSE LET sorted == sortProperties(SubSeq(properties, 1, Len(properties) - 1))
             x      == properties[Len(properties)]
             later  == {i \in 1..Len(sorted) : sortCompare(x, sorted[i]) < 0}
             at     == IF later = {} THEN Len(sorted) + 1 ELSE FirstIndex(later)
         IN  SubSeq(sorted, 1, at - 1) \o <<x>> \o SubSeq(sorted, at, Len(sorted))

\* what scrapeZuk can return
ZukPool ==
    {[id |-> "z-1", fonte |-> "Zuk", endereco |-> <<1, 0, 2>>,
      lance |-> 300000, desconto |-> <<50>>, prioridade |-> TRUE],
     [id |-> "z-2", fonte |-> "Zuk", endereco |-> <<101, 2, 0>>,
      lance |-> 300000, desconto |-> <<60>>, prioridade |-> FALSE]}

\* what scrapeCaixa can return
CaixaPool ==
    {[id |-> "k-1", fonte |-> "Caixa Economica", endereco |-> <<3>>,
      lance |-> 300000, desconto |-> <<45>>, prioridade |-> FALSE]}

\* the values of --source=; "" for no argument
SourceArgs == {"", "zuk", "caixa", "other"}

InitMain ==
    /\ DedupIdle
    /\ MarkIdle
    /\ FilterIdle
    /\ PriorityIdle
    /\ ScrapeIdle
    /\ SimIdle
    /\ MapIdle
    /\ MainIdle
    /\ LoopIdle

\* writeFileSync(join(DATA_DIR, `${today()}.json`), JSON.stringify(sorted))
Save(files, date, sorted) ==
    [files EXCEPT ![date] = [exists |-> TRUE, content |-> sorted]]

\* one run of main, from the parsing of the arguments to the save
RunMain ==
    /\ runCount < MaxRuns
    /\ \E sourceArg \in SourceArgs :
       \E zukProps \in ListsOver(ZukPool, MaxSourceRecords) :
       \E caixaProps \in ListsOver(CaixaPool, MaxSourceRecords) :
          LET withZuk       == sourceArg = "" \/ sourceArg = "zuk"
              withCaixa     == sourceArg = "" \/ sourceArg = "caixa"
              fromZuk       == IF withZuk THEN zukProps ELSE <<>>
              fromCaixa     == IF withCaixa THEN caixaProps ELSE <<>>
              allProps      == fromZuk \o fromCaixa
              filtered      == filterProperties(allProps)
              deduped       == deduplicateProperties(filtered)
              sorted        == sortProperties(deduped)
          IN  /\ withZuk \/ zukProps = <<>>
              /\ withCaixa \/ caixaProps = <<>>
              /\ snapshots' = Save(snapshots, clock, sorted)
              /\ lastRun' = [sourceArg |-> sourceArg, zuk |-> fromZuk,
                             caixa |-> fromCaixa]
    /\ runCount' = runCount + 1
    /\ UNCHANGED <<clock, dedupVars, markVars, filterVars, priorityVars,
                   scrapeVars, simVars, mapVars, loopVars>>

\* the date changes between two runs
Midnight ==
    /\ clock < MaxDays
    /\ clock' = clock + 1
    /\ UNCHANGED <<snapshots, runCount, lastRun, dedupVars, markVars,
                   filterVars, priorityVars, scrapeVars, simVars, mapVars,
                   loopVars>>

NextMain == RunMain \/ Midnight

SpecMain == InitMain /\ [][NextMain]_vars

----------------------------------------------------------------------------
(* The loop over the cities of scrapeCaixa (scrape-caixa.ts) and of         *)
(* scrapeZuk (scrape.ts).  For a city the fetch throws, answers with a      *)
(* status that is not OK, or answers with a page; a listing of the page     *)
(* makes its parser throw, is rejected (no record, or one that fails        *)
(* meetsFilters), or gives a record.                                        *)

FetchOutcomes == {"fetchThrows", "notOk"}

ListingOutcomes == {"parseThrows", "rejected", "record"}

CityOutcomes ==
    [kind : FetchOutcomes, listings : {<<>>}]
        \cup [kind : {"page"}, listings : ListsOver(ListingOutcomes, MaxListings)]

\* the records pushed for the listings of the page of a city: the try/catch
\* inside .each pushes nothing for a listing whose parser throws
PushedOf(city, listings) ==
    LET places == SelectSeq([i \in 1..Len(listings) |-> i],
                            LAMBDA i : listings[i] = "record")
    IN  [k \in 1..Len(places) |-> [city |-> city, listing |-> places[k]]]

\* a variant of the loop body of scrapeCaixa without the outer try/catch
CaixaCityUncaught(city, outcome) ==
    IF outcome.kind = "fetchThrows"
    THEN [escaped |-> TRUE, pushed |-> <<>>]
    ELSE [escaped |-> FALSE, pushed |-> PushedOf(city, outcome.listings)]

\* the loop body of scrapeCaixa: try { fetch; if (!response.ok) continue;
\* each listing } catch { log }
CaixaCity(city, outcome) ==
    IF outcome.kind = "fetchThrows"
    THEN [escaped |-> FALSE, pushed |-> <<>>]
    ELSE IF outcome.kind = "notOk"
         THEN [escaped |-> FALSE, pushed |-> <<>>]
         ELSE [escaped |-> FALSE, pushed |-> PushedOf(city, outcome.listings)]

\* fetchHTML: throws when fetch throws and when the status is not OK
fetchHTMLThrows(outcome) == outcome.kind \in FetchOutcomes

\* scrapeZukListing: [] when fetchHTML throws, else the records of the cards
scrapeZukListing(city, outcome) ==
    IF fetchHTMLThrows(outcome)
    THEN [escaped |-> FALSE, pushed |-> <<>>]
    ELSE [escaped |-> FALSE, pushed |-> PushedOf(city, outcome.listings)]

InitLoop ==
    /\ DedupIdle
    /\ MarkIdle
    /\ FilterIdle
    /\ PriorityIdle
    /\ ScrapeIdle
    /\ SimIdle
    /\ MapIdle
    /\ MainIdle
    /\ scraper \in {"caixa", "zuk"}
    /\ cityPlan \in [1..MaxCities -> CityOutcomes]
    /\ cityPos = 1
    /\ attempted = <<>>
    /\ collected = <<>>
    /\ scraperPc = "loop"

\* one city: an exception that escapes the body ends the scraper
LoopStep(body) ==
    /\ scraperPc = "loop"
    /\ cityPos <= Len(cityPlan)
    /\ attempted' = Append(attempted, cityPos)
    /\ IF body.escaped
       THEN /\ scraperPc' = "threw"
            /\ UNCHANGED <<cityPos, collected>>
       ELSE /\ collected' = collected \o body.pushed
            /\ cityPos' = cityPos + 1
            /\ UNCHANGED scraperPc
    /\ UNCHANGED <<scraper, cityPlan, dedupVars, markVars, filterVars,
                   priorityVars, scrapeVars, simVars, mapVars, mainVars>>

\* scrapeCaixa: one turn of for (const city of cities)
ScrapeCaixaCity ==
    /\ scraper = "caixa"
    /\ cityPos <= Len(cityPlan)
    /\ LoopStep(CaixaCity(cityPos, cityPlan[cityPos]))

\* scrapeZuk: one turn of for (const [city, url] of ...): push(...props)
ScrapeZukCity ==
    /\ scraper = "zuk"
    /\ cityPos <= Len(cityPlan)
    /\ LoopStep(scrapeZukListing(cityPos, cityPlan[cityPos]))

\* return properties
ReturnCollected ==
    /\ scraperPc = "loop"
    /\ cityPos > Len(cityPlan)
    /\ scraperPc' = "returned"
    /\ UNCHANGED <<scraper, cityPlan, cityPos, attempted, collected, dedupVars,
                   markVars, filterVars, priorityVars, scrapeVars, simVars,
                   mapVars, mainVars>>

NextLoop == ScrapeCaixaCity \/ ScrapeZukCity \/ ReturnCollected

SpecLoop == InitLoop /\ [][NextLoop]_vars

----------------------------------------------------------------------------
(* The scrapers followed by deduplicateProperties: every scraper keeps the *)
(* listings that pass meetsFilters, and the batches of the scrapers are    *)
(* the sources of deduplicateProperties.  Three scrapers with one listing  *)
(* each: "Rua das Flores, 123 - Batel", "R. das Flores 123 - Batel" and    *)
(* "Av. Central, 45 - Centro".                                             *)

FloresAddress ==
    <<118, 21, 1, 0, 4, 1, 19, 0, 106, 12, 15, 18, 5, 19, 33, 0, 41, 42, 43,
      0, 32, 0, 102, 1, 20, 5, 12>>

FloresShortAddress ==
    <<118, 34, 0, 4, 1, 19, 0, 106, 12, 15, 18, 5, 19, 0, 41, 42, 43, 0, 32,
      0, 102, 1, 20, 5, 12>>

CentralAddress ==
    <<101, 22, 34, 0, 103, 5, 14, 20, 18, 1, 12, 33, 0, 44, 45, 0, 32, 0,
      103, 5, 14, 20, 18, 15>>

Batel == <<102, 1, 20, 5, 12>>

Centro == <<103, 5, 14, 20, 18, 15>>

\* the record a scraper builds: desconto from calculateDiscount, prioridade
\* from isPriorityNeighborhood
ParsedRecord(id, endereco, bairro, lance, avaliacao) ==
    MkProp(id, endereco, lance, <<avaliacao>>,
           <<calculateDiscount(avaliacao, lance) \div 100>>, "undefined",
           BoolWord(isPriorityNeighborhood(bairro)))

\* if (property && meetsFilters(property)) properties.push(property)
KeepFiltered(batch) == SelectSeq(batch, meetsFilters)

ListingA(lance) == ParsedRecord("a-1", FloresAddress, Batel, lance, 500000)

ListingB(lance) == ParsedRecord("b-1", FloresShortAddress, Batel, lance, 500000)

ListingC(lance) == ParsedRecord("c-1", CentralAddress, Centro, lance, 1000000)

\* the bid prices of the listings
ListingBids == {290000, 300000, 310000, 900000}

\* the batches of the three scrapers in the order the files are given
ScrapedSources(first, second, third) ==
    <<KeepFiltered(<<first>>), KeepFiltered(<<second>>), KeepFiltered(<<third>>)>>

InitScenario ==
    /\ \E la, lb, lc \in ListingBids :
          \E order \in {f \in [1..3 -> 1..3] : \A i, j \in 1..3 : f[i] = f[j] => i = j} :
             LET listings == <<ListingA(la), ListingB(lb), ListingC(lc)>>
             IN  sources = ScrapedSources(listings[order[1]],
                                          listings[order[2]],
                                          listings[order[3]])
    /\ allProperties = <<>>
    /\ pos = 1
    /\ deduplicated = <<>>
    /\ seen = <<>>
    /\ step = NoStep
    /\ result = <<>>
    /\ firstResult = <<>>
    /\ run = 1
    /\ pc = "idle"
    /\ OtherIdle

SpecScenario == InitScenario /\ [][Next]_vars

----------------------------------------------------------------------------
(* The claims.  Similarity is compared with 0.85 as the fraction 85/100.   *)

SimilarityOf(p, q) ==
    compareTwoStrings(normalizeText(p.endereco), normalizeText(q.endereco))

IsDuplicatePair(p, q) == SimilarityOf(p, q).num * 100 >= 85 * SimilarityOf(p, q).den

Present(n) == n # <<>>

\* C1: terminal invariant: no two distinct records of the returned list have
\* normalized addresses whose similarity is >= 0.85
C1_NoSimilarPairInOutput ==
    pc = "done" =>
        \A i, j \in 1..Len(result) :
            i # j => ~IsDuplicatePair(result[i], result[j])

\* C2: idempotence: the call on the list the first call returned returns the
\* same records in the same order
C2_DedupIdempotent ==
    (pc = "done" /\ run = 2) => result = firstResult

\* C3: a record that matches a seen address replaces the existing record if
\* and only if its score is higher, or the scores are equal and it supplies a
\* discount, or an appraised value, that the existing record lacks
C3_ReplacementDecision ==
    (step.isDuplicate /\ step.existing # <<>>) =>
        LET existing == step.existing[1]
            newProp  == step.property[1]
        IN  step.replaced <=>
                \/ step.scores[2] > step.scores[1]
                \/ /\ step.scores[2] = step.scores[1]
                   /\ \/ Present(newProp.desconto) /\ ~Present(existing.desconto)
                      \/ Present(newProp.avaliacao) /\ ~Present(existing.avaliacao)

\* C4: of two records with duplicate addresses and the same score, exactly one
\* of which has a discount, the one with the discount is in the output,
\* whichever of the two comes first
C4_DiscountSurvivesTie ==
    (pc = "done" /\ run = 1 /\ Len(allProperties) = 2) =>
        LET p == allProperties[1]
            q == allProperties[2]
        IN  \A w \in {p, q} :
                (/\ IsDuplicatePair(p, q)
                 /\ scoreProperty(p) = scoreProperty(q)
                 /\ TruthyNumber(w.desconto)
                 /\ \A o \in {p, q} \ {w} : ~Present(o.desconto))
                => result = <<w>>

\* C5: the emitted record compared with a duplicate of the seen address s is
\* the record of the slot created when s was added to the seen set
C5_ComparedSlotIsKeySlot ==
    (step.isDuplicate /\ step.existingIndex # 0) =>
        step.existingIndex = step.matchedKey

\* a step of the loop of deduplicateProperties
IsLoopStep == pc = "loop" /\ pc' = "loop" /\ pos' = pos + 1

\* the address at ks[k] is at least 0.85 similar to addr
KeyMatches(ks, k, addr) ==
    compareTwoStrings(addr, ks[k]).num * 100
        >= 85 * compareTwoStrings(addr, ks[k]).den

\* C6: the keys of the seen set are never rewritten: a step keeps every key
\* where it is, a replacement leaves the seen set as it was, and a record is a
\* duplicate exactly when it is similar to a key of the seen set
C6_SeenKeysNeverRewritten ==
    [][IsLoopStep =>
        LET addr == normalizeText(allProperties[pos].endereco)
        IN  /\ Len(seen') >= Len(seen)
            /\ \A k \in 1..Len(seen) : seen'[k] = seen[k]
            /\ step'.isDuplicate => seen' = seen
            /\ step'.isDuplicate <=>
                   \E k \in 1..Len(seen) : KeyMatches(seen, k, addr)]_vars

\* C6 witness: a replacement has put into a slot a record whose normalized
\* address differs from the key the slot was created with
C6_Witness ==
    /\ pc = "loop"
    /\ step.replaced
    /\ step.existingIndex = step.matchedKey
    /\ seen[step.matchedKey]
          # normalizeText(deduplicated[step.existingIndex].endereco)
    /\ seen[step.matchedKey] = normalizeText(step.existing[1].endereco)

\* C7: a replacement puts the new record at the index of the record it
\* replaces; the length of the emitted list and the records at every other
\* index are unchanged
C7_ReplacementInPlace ==
    [][(IsLoopStep /\ step'.replaced) =>
        /\ Len(deduplicated') = Len(deduplicated)
        /\ deduplicated[step'.existingIndex] = step'.existing[1]
        /\ deduplicated'[step'.existingIndex] = allProperties[pos]
        /\ \A i \in 1..Len(deduplicated) :
              i # step'.existingIndex => deduplicated'[i] = deduplicated[i]]_vars

\* C7 witness: a replacement at the first of two slots by a different record
C7_Witness ==
    /\ pc = "loop"
    /\ step.replaced
    /\ Len(deduplicated) >= 2
    /\ step.existingIndex = 1
    /\ deduplicated[1] = step.property[1]
    /\ deduplicated[1] # step.existing[1]

\* the number of records in the batches before batch b
RECURSIVE BatchOffset(_, _)
BatchOffset(batches, b) ==
    IF b <= 1 THEN 0
    ELSE BatchOffset(batches, b - 1) + Len(batches[b - 1])

\* C8: records are processed in batch order, then in the order within the
\* batch; a record similar to no key of the seen set is appended to the
\* emitted list and its normalized address is added to the seen set, so the
\* key a duplicate matches is the address of a record earlier in that order
C8_FlattenedOrderAndAppend ==
    [][/\ (pc = "idle" /\ pc' = "loop") =>
            /\ Len(allProperties') = BatchOffset(sources, Len(sources) + 1)
            /\ \A b \in 1..Len(sources) : \A j \in 1..Len(sources[b]) :
                  allProperties'[BatchOffset(sources, b) + j] = sources[b][j]
       /\ IsLoopStep =>
            LET addr == normalizeText(allProperties[pos].endereco)
            IN  /\ step'.property = <<allProperties[pos]>>
                /\ (\A k \in 1..Len(seen) : ~KeyMatches(seen, k, addr)) =>
                      /\ deduplicated' = Append(deduplicated, allProperties[pos])
                      /\ seen' = Append(seen, addr)
                /\ step'.isDuplicate =>
                      \E i \in 1..(pos - 1) :
                          /\ seen[step'.matchedKey]
                                = normalizeText(allProperties[i].endereco)
                          /\ KeyMatches(seen, step'.matchedKey, addr)]_vars

\* C8 witness: the first batch holds one record, and a record of the second
\* batch has been appended as new after it
C8_Witness ==
    /\ pc = "loop"
    /\ Len(sources) = 2
    /\ Len(sources[1]) = 1
    /\ Len(sources[2]) >= 1
    /\ sources[1][1] # sources[2][1]
    /\ pos = 3
    /\ ~step.isDuplicate
    /\ deduplicated = <<sources[1][1], sources[2][1]>>
    /\ seen = <<normalizeText(sources[1][1].endereco),
                normalizeText(sources[2][1].endereco)>>

\* C9: a record at similarity exactly 0.85 to a key of the seen set is a
\* duplicate and is not emitted as a separate record; a record below 0.85 to
\* every key is emitted as new
C9_ThresholdBoundary ==
    [][IsLoopStep =>
        LET addr == normalizeText(allProperties[pos].endereco)
            sim(k) == compareTwoStrings(addr, seen[k])
        IN  /\ (\E k \in 1..Len(seen) : sim(k).num * 100 = 85 * sim(k).den) =>
                  /\ step'.isDuplicate
                  /\ Len(deduplicated') = Len(deduplicated)
            /\ (\A k \in 1..Len(seen) : sim(k).num * 100 < 85 * sim(k).den) =>
                  /\ ~step'.isDuplicate
                  /\ deduplicated' = Append(deduplicated, allProperties[pos])]_vars

\* C9 witness: a record at similarity exactly 34/40 to the key it matched
C9_Witness ==
    /\ pc = "loop"
    /\ step.isDuplicate
    /\ LET s == compareTwoStrings(normalizeText(step.property[1].endereco),
                                  seen[step.matchedKey])
       IN  s.num = 34 /\ s.den = 40

\* the score as the sum of the weights of the fields that are present
WeightedSum(property) ==
      (IF Present(property.avaliacao) THEN 3 ELSE 0)
    + (IF Present(property.desconto) THEN 3 ELSE 0)
    + (IF TruthyString(property.area) THEN 2 ELSE 0)
    + (IF property.ocupacao # "desconhecido" THEN 2 ELSE 0)
    + (IF TruthyString(property.encerramento) THEN 1 ELSE 0)
    + (IF Len(property.endereco) > 20 THEN 1 ELSE 0)
    + (IF TruthyString(property.modalidade) /\ property.modalidade # "Leilao"
       THEN 1 ELSE 0)

\* C10: scoreProperty returns the sum of the weights of the fields that are
\* present; a discount that is present with the value 0 counts +3
C10_ScoreIsWeightedSum ==
    step.scores # <<>> =>
        /\ step.scores[1] = WeightedSum(step.existing[1])
        /\ step.scores[2] = WeightedSum(step.property[1])

\* a record flagged as being in a priority neighborhood
IsPriorityRecord(p) == p.prioridade = "true"

\* the discount, a missing one counted as 0
DiscountKey(p) == IF Present(p.desconto) THEN p.desconto[1] ELSE 0

SameSortKeys(a, b) ==
    /\ IsPriorityRecord(a) = IsPriorityRecord(b)
    /\ DiscountKey(a) = DiscountKey(b)
    /\ a.lance = b.lance

\* C11: in the returned list priority records come before the others; among
\* equal priority the higher discount comes first, a missing discount counted
\* as 0; among equal priority and discount the lower bid price comes first
C11_OutputOrdered ==
    pc = "done" =>
        \A i \in 1..(Len(result) - 1) :
            LET a == result[i]
                b == result[i + 1]
            IN  /\ ~(IsPriorityRecord(b) /\ ~IsPriorityRecord(a))
                /\ IsPriorityRecord(a) = IsPriorityRecord(b) =>
                      DiscountKey(a) >= DiscountKey(b)
                /\ (/\ IsPriorityRecord(a) = IsPriorityRecord(b)
                    /\ DiscountKey(a) = DiscountKey(b)) => a.lance <= b.lance

\* the place of record r in list
PlaceOf(list, r) == CHOOSE k \in 1..Len(list) : list[k] = r

HasId(list, id) == \E j \in 1..Len(list) : list[j].id = id

\* C13: markNewProperties sets novo to true exactly on the records whose id
\* is not an id of previous; with previous empty every record is new, with
\* previous equal to current none is
C13_NovoIffIdNotInPrevious ==
    markPc = "done" =>
        /\ Len(marked) = Len(current)
        /\ \A i \in 1..Len(marked) :
              /\ marked[i].novo \in {"true", "false"}
              /\ marked[i].novo = "true" <=> ~HasId(previous, current[i].id)
        /\ previous = <<>> => \A i \in 1..Len(marked) : marked[i].novo = "true"
        /\ previous = current =>
              \A i \in 1..Len(marked) : marked[i].novo = "false"

\* a call with one new and one known record, the known one in another version
C13_Witness ==
    /\ markPc = "done"
    /\ \E i, k \in 1..Len(marked) :
          /\ marked[i].novo = "true"
          /\ marked[k].novo = "false"
          /\ \A j \in 1..Len(previous) : previous[j] # current[k]

\* the fields of a record other than novo
OtherFields(p) == [f \in DOMAIN p \ {"novo"} |-> p[f]]

\* C14: markNewProperties leaves both arguments as they were, flags
\* included, and returns a list of the same length and order whose records
\* equal the records of current in every field other than novo
C14_MarkIsPure ==
    [][(markPc = "idle" /\ markPc' = "done") =>
        /\ current' = current
        /\ previous' = previous
        /\ Len(marked') = Len(current)
        /\ \A i \in 1..Len(current) :
              OtherFields(marked'[i]) = OtherFields(current[i])]_vars

\* a call that returns a flag different from the one the argument carries
C14_Witness ==
    /\ markPc = "done"
    /\ \E i \in 1..Len(current) :
          /\ "novo" \in DOMAIN current[i]
          /\ current[i].novo # marked[i].novo
    /\ \E i \in 1..Len(current) : "novo" \notin DOMAIN current[i]

\* C15: every record that survives meetsFilters or filterProperties has a
\* discount above 40 and a bid price below 800000; a record with no discount
\* or a discount of 0 never survives
C15_SurvivorsWithinThresholds ==
    filterPc # "idle" =>
        \A i \in 1..Len(kept) :
            /\ kept[i].desconto # <<>>
            /\ kept[i].desconto[1] > 40
            /\ kept[i].desconto[1] # 0
            /\ kept[i].lance < 800000

\* u is the upper-case form of the lower-case character l
IsUpperOf(u, l) == u = l + 100 /\ (l < 100 \/ (l >= 200 /\ l < 300))

SameIgnoringCase(c, d) == c = d \/ IsUpperOf(c, d) \/ IsUpperOf(d, c)

\* sub occurs in s, letter case ignored
OccursIgnoringCase(sub, s) ==
    \E i \in 0..(Len(s) - Len(sub)) :
        \A k \in 1..Len(sub) : SameIgnoringCase(sub[k], s[i + k])

\* the seven configured priority neighborhoods
ConfiguredNeighborhoods ==
    {PRIORITY_NEIGHBORHOODS[k] : k \in 1..Len(PRIORITY_NEIGHBORHOODS)}

Emitted == scrapePc = "done" /\ emitted # <<>>

\* the record the scraper emitted
TheRecord == emitted[1]

\* scrape.ts matches with isPriority, the modular scrapers with
\* isPriorityNeighborhood
MatchesPriorityList(site, bairro) ==
    IF site \in {"scrape.ts zuk", "scrape.ts caixa"}
    THEN isPriority(bairro)
    ELSE isPriorityNeighborhood(bairro)

\* C17: in every record a scraper emits, prioridade is true exactly when
\* the bairro stored in the record matches the scraper's priority list
\* under the substring rule in both directions
C17_FlagAgreesWithStoredBairro ==
    Emitted =>
        (TheRecord.prioridade = "true"
            <=> MatchesPriorityList(listing.site, TheRecord.bairro))

\* Centro de SJP, Centro (Sao Jose Dos Pinhais) without and with diacritics
CentroElsewhere ==
    {<<103, 5, 14, 20, 18, 15, 0, 4, 5, 0, 119, 110, 116>>,
     <<103, 5, 14, 20, 18, 15, 0, 30, 119, 1, 15, 0, 110, 15, 19, 5, 0, 104, 15, 19, 0, 116, 9, 14, 8, 1, 9, 19, 31>>,
     <<103, 5, 14, 20, 18, 15, 0, 30, 119, 201, 15, 0, 110, 15, 19, 205, 0, 104, 15, 19, 0, 116, 9, 14, 8, 1, 9, 19, 31>>}

\* C18: a record whose neighborhood is the Centro of another city than
\* Curitiba is not classified as priority
C18_CentroOnlyInCuritiba ==
    (Emitted /\ TheRecord.bairro \in CentroElsewhere) =>
        TheRecord.prioridade = "false"

\* round((avaliacao - lance) / avaliacao * 100) in hundredths of a percent,
\* for avaliacao > 0
DiscountOfPrices(avaliacao, lance) ==
    100 * ((200 * (avaliacao - lance) + avaliacao) \div (2 * avaliacao))

Distance(x, y) == IF x >= y THEN x - y ELSE y - x

\* C19: in every emitted record that has a discount, the discount is
\* round((avaliacao - lance) / avaliacao * 100) up to a difference of 1,
\* whether it was derived from the prices or read from the page or the CSV
C19_DiscountAgreesWithPrices ==
    (/\ Emitted
     /\ Present(TheRecord.desconto)
     /\ Present(TheRecord.avaliacao)
     /\ TheRecord.avaliacao[1] > 0) =>
        Distance(TheRecord.desconto[1],
                 DiscountOfPrices(TheRecord.avaliacao[1], TheRecord.lance)) <= 100

\* C20: every emitted record has a bid price that is present and not
\* negative: a listing whose price is missing, unparsable or zero is dropped
C20_BidPriceNotNegative ==
    Emitted => (TheRecord.lance >= 0 /\ TheRecord.lance # 0)

\* the records processed so far
Processed == SubSeq(allProperties, 1, pos - 1)

InLoopOrDone == pc \in {"loop", "done"}

\* C27: after any prefix of the flattened input every processed record is
\* in the emitted list or has a normalized address at least 0.85 similar to
\* an address of the seen set, and every emitted record is one of the
\* processed input records, unmodified
C27_Coverage ==
    InLoopOrDone =>
        /\ \A i \in 1..Len(Processed) :
              \/ \E j \in 1..Len(deduplicated) : deduplicated[j] = Processed[i]
              \/ \E k \in 1..Len(seen) :
                    KeyMatches(seen, k, normalizeText(Processed[i].endereco))
        /\ \A j \in 1..Len(deduplicated) :
              \E i \in 1..Len(Processed) : deduplicated[j] = Processed[i]

\* a processed record has lost its place to another one
C27_Witness ==
    /\ pc = "loop"
    /\ step.replaced
    /\ \E i \in 1..Len(Processed) :
          \A j \in 1..Len(deduplicated) : deduplicated[j] # Processed[i]

\* C28: after any prefix of the flattened input the emitted list and the
\* seen set have the same size
C28_ParallelSizes ==
    InLoopOrDone => Len(deduplicated) = Len(seen)

\* two addresses are seen and a duplicate has been processed
C28_Witness ==
    /\ pc = "loop"
    /\ step.isDuplicate
    /\ Len(seen) >= 2
    /\ Len(Processed) > Len(seen)

\* C29: a record that matches a seen address always finds an emitted record
\* to be compared with, and every seen address has an emitted record whose
\* normalized address is at least 0.85 similar to it
C29_LookupSucceeds ==
    InLoopOrDone =>
        /\ step.isDuplicate => step.existingIndex # 0
        /\ \A k \in 1..Len(seen) :
              \E j \in 1..Len(deduplicated) :
                  KeyMatches(seen, k, normalizeText(deduplicated[j].endereco))

\* C30: the ranking comparator orders every pair of records consistently:
\* compare(a, b) and compare(b, a) have opposite signs or are both zero
C30_ComparatorConsistent ==
    pc = "done" =>
        \A i, j \in 1..Len(result) :
            Sign(Compare(result[i], result[j]))
                + Sign(Compare(result[j], result[i])) = 0

\* the similarity of the two addresses taken in the other order
SwappedSimilarity ==
    compareTwoStrings(normalizeText(simSecond), normalizeText(simFirst))

\* C25: the similarity of two normalized addresses is the same in both
\* orders, lies between 0 and 1, and is 1 for an address compared with
\* itself, so that records with identical normalized addresses are taken
\* for duplicates
C25_SimilarityAlgebra ==
    simPc = "done" =>
        /\ simValue.den > 0
        /\ simValue.num >= 0
        /\ simValue.num <= simValue.den
        /\ simValue.num * SwappedSimilarity.den
               = SwappedSimilarity.num * simValue.den
        /\ normalizeText(simFirst) = normalizeText(simSecond) =>
              (simValue.num = simValue.den /\ simDuplicate)

\* two addresses written differently that normalize to the same text of
\* one character, and have been compared
C25_Witness ==
    /\ simPc = "done"
    /\ simFirst # simSecond
    /\ normalizeText(simFirst) = normalizeText(simSecond)
    /\ Len(normalizeText(simFirst)) = 1
    /\ simDuplicate

\* the three listings with the bids 300000, 310000 and 900000
GivenA == ListingA(300000)

GivenB == ListingB(310000)

GivenC == ListingC(900000)

\* C21: with the three listings given, the run ends with the single record
\* a-1, flagged priority; the records a-1 and b-1 both enter the
\* deduplication and collapse into a-1, and c-1 is removed by the filter
C21_ScenarioCollapses ==
    (pc = "done" /\ run = 1 /\ sources = ScrapedSources(GivenA, GivenB, GivenC)) =>
        /\ result = <<GivenA>>
        /\ GivenA.prioridade = "true"
        /\ \E i \in 1..Len(allProperties) : allProperties[i] = GivenA
        /\ \E i \in 1..Len(allProperties) : allProperties[i] = GivenB
        /\ \A i \in 1..Len(allProperties) : allProperties[i] # GivenC

\* the places of the input whose record has the key
PlacesOfKey(key) == {i \in 1..Len(mapInput) : DedupKey(mapInput[i]) = key}

\* the first place among those of the key where the discount is the highest
BestPlace(key) ==
    FirstIndex({i \in PlacesOfKey(key) :
                   \A k \in PlacesOfKey(key) :
                       mapInput[k].desconto[1] <= mapInput[i].desconto[1]})

\* C26: the output of scrape.ts deduplicateProperties holds one record for
\* every key of the input and no two records of one key; the record of a
\* key is the earliest of those with the highest discount for the key; the
\* keys come in the order of their first occurrence in the input
C26_OnePerKeyBestFirst ==
    mapPc = "done" =>
        /\ \A i \in 1..Len(mapInput) :
              \E j \in 1..Len(mapOutput) : DedupKey(mapOutput[j]) = DedupKey(mapInput[i])
        /\ \A j, k \in 1..Len(mapOutput) :
              DedupKey(mapOutput[j]) = DedupKey(mapOutput[k]) => j = k
        /\ \A j \in 1..Len(mapOutput) :
              /\ PlacesOfKey(DedupKey(mapOutput[j])) # {}
              /\ mapOutput[j] = mapInput[BestPlace(DedupKey(mapOutput[j]))]
        /\ \A j, k \in 1..Len(mapOutput) :
              j < k => FirstIndex(PlacesOfKey(DedupKey(mapOutput[j])))
                          < FirstIndex(PlacesOfKey(DedupKey(mapOutput[k])))

\* three records, the first and the last at differently written addresses
\* of one key and with the same discount, the second at another key
C26_Witness ==
    /\ mapPc = "done"
    /\ Len(mapInput) = 3
    /\ Len(mapOutput) = 2
    /\ mapInput[1] # mapInput[3]
    /\ mapInput[1].endereco # mapInput[3].endereco
    /\ DedupKey(mapInput[1]) = DedupKey(mapInput[3])
    /\ mapInput[1].desconto = mapInput[3].desconto
    /\ mapOutput[1] = mapInput[1]

\* C22: a snapshot file that exists is never changed by a later step, a
\* second run on the same date included
C22_SnapshotImmutable ==
    [][\A d \in 1..MaxDays : snapshots[d].exists => snapshots'[d] = snapshots[d]]_vars

\* a run of main ends in the step
IsRunStep == runCount' = runCount + 1

\* C23: a run on a date without a snapshot writes the snapshot if and only
\* if one of the sources it scraped returned a record
C23_WritesIffSomeSourceProduced ==
    [][(IsRunStep /\ ~snapshots[clock].exists) =>
          (snapshots'[clock].exists <=> (lastRun'.zuk # <<>> \/ lastRun'.caixa # <<>>))]_vars

\* the records of the pages of the cities from..Len(cityPlan), city by city
RECURSIVE RecordsOfPages(_)
RecordsOfPages(from) ==
    IF from > Len(cityPlan) THEN <<>>
    ELSE (IF cityPlan[from].kind = "page"
          THEN PushedOf(from, cityPlan[from].listings)
          ELSE <<>>) \o RecordsOfPages(from + 1)

\* C24: no failure of a fetch or of a listing's parser ends the scraper
\* with an exception; when the scraper returns it has fetched every city
\* in turn and returns the records of the listings that parsed, all of
\* them and nothing else (none when no city gave any)
C24_FailuresStayInside ==
    /\ scraperPc # "threw"
    /\ scraperPc = "returned" =>
          /\ attempted = [i \in 1..Len(cityPlan) |-> i]
          /\ collected = RecordsOfPages(1)

\* the scraper has returned a record of the last city although the fetch
\* of the first city threw and a listing of the last city did not parse
C24_Witness ==
    /\ scraperPc = "returned"
    /\ cityPlan[1].kind = "fetchThrows"
    /\ cityPlan[Len(cityPlan)].kind = "page"
    /\ cityPlan[Len(cityPlan)].listings = <<"parseThrows", "record">>
    /\ collected = <<[city |-> Len(cityPlan), listing |-> 2]>>

====
